---- MODULE Spec2Model ----
(***************************************************************************)
(* CipherMount: a FUSE pass-through filesystem whose regular files are     *)
(* stored as AES-256-GCM envelopes  nonce(12) ++ ciphertext ++ tag(16).    *)
(*                                                                         *)
(*   crypto/mod.rs  encrypt / decrypt                                      *)
(*   fuse/mod.rs    CipherFS: inode registry and the ten handler operations*)
(*                                                                         *)
(* The backing directory is a map from paths to entries.  A backing call   *)
(* (fs::read, fs::write, File::create, ...) is one step: it either takes   *)
(* effect whole or fails without effect.  A handler operation is a         *)
(* sequence of such steps; path_for is taken together with the first       *)
(* backing call (a registry binding never changes once made, so reading it *)
(* later gives the same path).                                             *)
(***************************************************************************)
EXTENDS Integers, Sequences, FiniteSets, TLC

\* ------------------------------------------------------------------ bounds

\* Longest plaintext a write may produce (offset + |data| <= MaxLen).
MaxLen == 2

\* ------------------------------------------------------- program constants

HEADER_LEN == 12
TAG_LEN == 16
KEY_LEN == 32
ROOT_INO == 1

\* ------------------------------------------------------------------- bytes

Byte == 0 .. 255

RECURSIVE SumSeq(_)
SumSeq(s) == IF s = <<>> THEN 0 ELSE Head(s) + SumSeq(Tail(s))

Fill(n, b) == [i \in 1 .. n |-> b]

Min(a, b) == IF a < b THEN a ELSE b

\* ---------------------------------------------------------- envelope codec

\* Result<Vec<u8>>: Ok(val) or Err (no output).
Ok(v) == [ok |-> TRUE, val |-> v]
Err == [ok |-> FALSE, val |-> <<>>]

\* The AEAD primitive (ring's AES_256_GCM) by its contract: the ciphertext has
\* the plaintext's length and depends on key, nonce and position; a 16-byte tag
\* over key, nonce and ciphertext is appended; opening recomputes the tag and
\* yields the plaintext only when it matches.
KeyStream(key, nonce, i) ==
    (key[((i - 1) % KEY_LEN) + 1] + nonce[((i - 1) % HEADER_LEN) + 1] + i) % 256

TagOver(key, nonce, digest) ==
    [j \in 1 .. TAG_LEN |->
        (3 * key[j] + 5 * nonce[((j - 1) % HEADER_LEN) + 1] + digest + j) % 256]

Tag(key, nonce, ct) == TagOver(key, nonce, (7 * SumSeq(ct) + Len(ct)) % 256)

seal_in_place_append_tag(key, nonce, buf) ==
    LET ct == [i \in 1 .. Len(buf) |-> (buf[i] + KeyStream(key, nonce, i)) % 256]
    IN  ct \o Tag(key, nonce, ct)

\* open_in_place that does not compare the tag.
open_in_place_NoTag(key, nonce, buf) ==
    IF Len(buf) < TAG_LEN THEN Err
    ELSE Ok([i \in 1 .. Len(buf) - TAG_LEN |->
               (buf[i] + 256 - KeyStream(key, nonce, i)) % 256])

open_in_place(key, nonce, buf) ==
    IF Len(buf) < TAG_LEN THEN Err
    ELSE LET n  == Len(buf) - TAG_LEN
             ct == SubSeq(buf, 1, n)
             tg == SubSeq(buf, n + 1, Len(buf))
         IN  IF tg = Tag(key, nonce, ct)
             THEN Ok([i \in 1 .. n |->
                        (ct[i] + 256 - KeyStream(key, nonce, i)) % 256])
             ELSE Err

\* encrypt that seals under the drawn nonce and writes a zero header.
encrypt_ZeroHeader(key, nonce_bytes, plaintext) ==
    Fill(HEADER_LEN, 0) \o seal_in_place_append_tag(key, nonce_bytes, plaintext)

\* encrypt that leaves the nonce out of its output.
encrypt_NoHeader(key, nonce_bytes, plaintext) ==
    seal_in_place_append_tag(key, nonce_bytes, plaintext)

\* encrypt, given the nonce the RNG produced: nonce ++ ciphertext ++ tag.
encrypt(key, nonce_bytes, plaintext) ==
    nonce_bytes \o seal_in_place_append_tag(key, nonce_bytes, plaintext)

\* decrypt that takes a short blob for an empty plaintext.
decrypt_ShortIsEmpty(key, data) ==
    IF Len(data) < HEADER_LEN + 16 THEN Ok(<<>>)
    ELSE open_in_place(key, SubSeq(data, 1, HEADER_LEN),
                       SubSeq(data, HEADER_LEN + 1, Len(data)))

\* decrypt that splits the envelope one byte late.
decrypt_SplitLate(key, data) ==
    IF Len(data) < HEADER_LEN + 16 THEN Err
    ELSE open_in_place(key, SubSeq(data, 1, HEADER_LEN),
                       SubSeq(data, HEADER_LEN + 2, Len(data)))

decrypt(key, data) ==
    IF Len(data) < HEADER_LEN + 16 THEN Err
    ELSE LET nonce_bytes == SubSeq(data, 1, HEADER_LEN)
             ciphertext  == SubSeq(data, HEADER_LEN + 1, Len(data))
         IN  open_in_place(key, nonce_bytes, ciphertext)

\* ------------------------------------------------------------ the universe

\* The key the filesystem is mounted with, and a key it is not mounted with.
MountKey == Fill(KEY_LEN, 66)
OtherKey == Fill(KEY_LEN, 1)

\* What the RNG may return for a nonce.
Nonces == {Fill(HEADER_LEN, 5), Fill(HEADER_LEN, 200)}

\* Entry names; a path is the sequence of names below the source directory.
Names == {"a", "b"}
source == <<>>
Paths == {source} \cup {<<n>> : n \in Names}
join(parent, name) == Append(parent, name)

\* Handler threads.
Threads == {"t1", "t2"}

\* Arguments the kernel may send.
Inos == 1 .. Cardinality(Paths) + 1
Offsets == 0 .. MaxLen
Datas == {<<1>>, <<1, 2>>}
Sizes == {1, MaxLen}
DirBufs == {1, Cardinality(Paths) + 1}

\* Backing entries.
Absent == [kind |-> "absent", data |-> <<>>]
Dir == [kind |-> "dir", data |-> <<>>]
File(bytes) == [kind |-> "file", data |-> bytes]

\* Files the backing directory may hold before the mount: a short file that
\* is no envelope, and an envelope under another key.
Junk == File(Fill(10, 0))
Foreign == File(encrypt(OtherKey, Fill(HEADER_LEN, 5), <<9>>))

VARIABLES
    inodes,     \* CipherFS.inodes: inode -> path
    next_ino,   \* CipherFS.next_ino
    map_lock,   \* holder of the inodes mutex ("" when free)
    fs,         \* the backing directory: path -> entry
    ioFaults,   \* whether backing I/O and the RNG may fail
    pc,         \* per thread: position in the operation it runs
    op,         \* per thread: the operation and its arguments
    loc,        \* per thread: the operation's local variables
    reply,      \* per thread: the reply sent
    made,       \* history: how the handler produced the file at a path:
                \* "created" by create, "written" by writes after a create,
                \* "replaced" by writes with no create before, else "none"
    handed,     \* history: the <<path, ino>> pairs register has returned
    raceBase,   \* history: the plaintext two racing writes started from
    cKey, cKey2, cPlain, cBlob, cOut, cpc   \* the codec on its own

regVars == <<inodes, next_ino, map_lock, handed>>
thrVars == <<pc, op, loc, reply>>
codecVars == <<cKey, cKey2, cPlain, cBlob, cOut, cpc>>
envVars == <<ioFaults, raceBase>>
vars == <<inodes, next_ino, map_lock, fs, ioFaults, pc, op, loc, reply, made,
          handed, raceBase, cKey, cKey2, cPlain, cBlob, cOut, cpc>>

\* ------------------------------------------------------- operations, replies

NoOp == [name |-> "none", ino |-> 0, nm |-> "", offset |-> 0, size |-> 0,
         data |-> <<>>]
NoLoc == [path |-> source, plaintext |-> <<>>, rdErr |-> FALSE, meta |-> Absent,
          ino |-> 0, entries |-> <<>>, all |-> <<>>]
NoReply == [tag |-> "none", errno |-> "", ino |-> 0, kind |-> "", size |-> 0,
            data |-> <<>>, entries |-> <<>>]

\* reply.error(errno)
Error(e) == [NoReply EXCEPT !.tag = "error", !.errno = e]

\* ------------------------------------------------------------ inode registry

\* Option<PathBuf>
Some(p) == [some |-> TRUE, val |-> p]
None == [some |-> FALSE, val |-> <<>>]

\* path_for that answers the root for every inode.
path_for_Root(ino) == Some(source)

\* path_for: the recorded path, or None.
path_for(ino) == IF ino \in DOMAIN inodes THEN Some(inodes[ino]) ELSE None

\* register that never looks for the path.
register_Fresh(map, n, path) ==
    [ino |-> n, map |-> [i \in DOMAIN map \cup {n} |-> IF i = n THEN path ELSE map[i]],
     next |-> n + 1]

\* register under the inodes mutex: the bound inode when the path is present,
\* else the counter's value, bound to the path, the counter advanced.
register(map, n, path) ==
    IF \E i \in DOMAIN map : map[i] = path
    THEN [ino |-> CHOOSE i \in DOMAIN map : map[i] = path, map |-> map, next |-> n]
    ELSE [ino |-> n, map |-> map @@ (n :> path), next |-> n + 1]

\* ------------------------------------------------------------ backing store

\* The entry at a path; paths outside the modelled tree never exist.
At(p) == IF p \in Paths THEN fs[p] ELSE Absent

\* Outcomes of a backing call or an RNG draw: TRUE unless faults are on.
IoOk == IF ioFaults THEN {TRUE, FALSE} ELSE {TRUE}

\* fs::metadata that succeeds on every path.
Exists_Always(p) == TRUE

\* fs::metadata(path) succeeds on an existing entry.
Exists(p) == At(p).kind # "absent"
IsDir(p) == At(p).kind = "dir"
IsFile(p) == At(p).kind = "file"

\* meta_to_attr that reports the length of the plaintext.
meta_to_attr_Plain(ino, meta) ==
    [ino |-> ino,
     kind |-> IF meta.kind = "dir" THEN "Directory" ELSE "RegularFile",
     size |-> Len(decrypt(MountKey, meta.data).val)]

\* meta_to_attr: kind and size (the backing length) of the entry.
meta_to_attr(ino, meta) ==
    [ino |-> ino,
     kind |-> IF meta.kind = "dir" THEN "Directory" ELSE "RegularFile",
     size |-> Len(meta.data)]

Attr(tag, ino, meta) ==
    LET a == meta_to_attr(ino, meta)
    IN  [NoReply EXCEPT !.tag = tag, !.ino = a.ino, !.kind = a.kind, !.size = a.size]

\* ------------------------------------------------------- steps of a handler

Call(name, ino, nm, offset, size, data) ==
    [name |-> name, ino |-> ino, nm |-> nm, offset |-> offset, size |-> size,
     data |-> data]

\* The operation replies and ends.
Finish(t, o, r) ==
    /\ pc' = [pc EXCEPT ![t] = "done"]
    /\ op' = [op EXCEPT ![t] = o]
    /\ reply' = [reply EXCEPT ![t] = r]

\* The operation goes on to its next step with locals l.
Goto(t, o, l, next) ==
    /\ pc' = [pc EXCEPT ![t] = next]
    /\ op' = [op EXCEPT ![t] = o]
    /\ loc' = [loc EXCEPT ![t] = l]
    /\ reply' = reply

\* register(path) by thread t, and the pair it returns recorded.
Register(t, path, r) ==
    /\ r = register(inodes, next_ino, path)
    /\ inodes' = r.map
    /\ next_ino' = r.next
    /\ handed' = handed \cup {<<path, r.ino>>}
    /\ UNCHANGED map_lock

\* getattr
Getattr(t) ==
    /\ pc[t] = "idle"
    /\ \E ino \in Inos :
         Finish(t, Call("getattr", ino, "", 0, 0, <<>>),
                IF path_for(ino).some /\ Exists(path_for(ino).val)
                THEN Attr("attr", ino, At(path_for(ino).val))
                ELSE Error("ENOENT"))
    /\ UNCHANGED <<regVars, fs, envVars, loc, made, codecVars>>

\* open
Open(t) ==
    /\ pc[t] = "idle"
    /\ \E ino \in Inos :
         Finish(t, Call("open", ino, "", 0, 0, <<>>),
                IF path_for(ino).some THEN [NoReply EXCEPT !.tag = "opened"]
                ELSE Error("ENOENT"))
    /\ UNCHANGED <<regVars, fs, envVars, loc, made, codecVars>>

\* fs::read that yields no bytes where there is no file.
fs_read_Lenient(path, ok) == IF ok THEN Ok(At(path).data) ELSE Err

\* fs::read(path): the file's bytes, or an error (no file there, or a fault).
fs_read(path, ok) == IF IsFile(path) /\ ok THEN Ok(At(path).data) ELSE Err

\* read that clips from the start of the plaintext, whatever the offset.
read_reply_FromStart(raw, offset, size) ==
    IF ~raw.ok THEN Error("EIO")
    ELSE IF Len(raw.val) < HEADER_LEN + 16 THEN [NoReply EXCEPT !.tag = "data"]
    ELSE LET d == decrypt(MountKey, raw.val)
         IN  IF ~d.ok THEN Error("EIO")
             ELSE [NoReply EXCEPT !.tag = "data",
                                  !.data = SubSeq(d.val, 1, Min(size, Len(d.val)))]

\* read that takes a short file for a corrupt one.
read_reply_Strict(raw, offset, size) ==
    LET d == decrypt(MountKey, raw.val)
    IN  IF ~raw.ok \/ ~d.ok THEN Error("EIO")
        ELSE [NoReply EXCEPT !.tag = "data",
                             !.data = SubSeq(d.val, offset + 1,
                                             Min(offset + size, Len(d.val)))]

\* read, after path_for: load, test the length, decrypt, clip.
read_reply(raw, offset, size) ==
    IF ~raw.ok THEN Error("EIO")
    ELSE IF Len(raw.val) < HEADER_LEN + 16 THEN [NoReply EXCEPT !.tag = "data"]
    ELSE LET d == decrypt(MountKey, raw.val)
             start == offset
             end == Min(start + size, Len(d.val))
         IN  IF ~d.ok THEN Error("EIO")
             ELSE IF start >= Len(d.val) THEN [NoReply EXCEPT !.tag = "data"]
             ELSE [NoReply EXCEPT !.tag = "data",
                                  !.data = SubSeq(d.val, start + 1, end)]

Read(t) ==
    /\ pc[t] = "idle"
    /\ \E ino \in Inos, offset \in Offsets, size \in Sizes, ok \in IoOk :
         LET o == Call("read", ino, "", offset, size, <<>>)
             path == path_for(ino)
             raw == fs_read(path.val, ok)
         IN  IF path.some
             THEN /\ Finish(t, o, read_reply(raw, offset, size))
                  /\ loc' = [loc EXCEPT ![t] = [NoLoc EXCEPT !.path = path.val,
                                                             !.rdErr = ~raw.ok]]
             ELSE Finish(t, o, Error("ENOENT")) /\ loc' = loc
    /\ UNCHANGED <<regVars, fs, envVars, made, codecVars>>

\* write, lines 259-277: path_for, then path.exists().
WriteBegin(t) ==
    /\ pc[t] = "idle"
    /\ \E ino \in Inos, offset \in Offsets, data \in Datas :
         /\ offset + Len(data) <= MaxLen
         /\ LET o == Call("write", ino, "", offset, 0, data)
                path == path_for(ino)
            IN  IF ~path.some
                THEN Finish(t, o, Error("ENOENT")) /\ loc' = loc
                ELSE Goto(t, o, [NoLoc EXCEPT !.path = path.val],
                          IF Exists(path.val) THEN "write_read" ELSE "write_store")
    /\ UNCHANGED <<regVars, fs, envVars, made, codecVars>>

\* A write that takes the bytes of a file it cannot decrypt for plaintext.
existing_plaintext_KeepRaw(raw) ==
    LET bytes == IF raw.ok THEN raw.val ELSE <<>>
    IN  IF Len(bytes) >= HEADER_LEN + 16
        THEN LET d == decrypt(MountKey, bytes) IN IF d.ok THEN d.val ELSE bytes
        ELSE <<>>

\* A write that starts from nothing.
existing_plaintext_Empty(raw) == <<>>

\* The plaintext write starts from: fs::read(..).unwrap_or_default(), and
\* decrypt(..).unwrap_or_default() when that is 28 bytes or more.
existing_plaintext(raw) ==
    LET bytes == IF raw.ok THEN raw.val ELSE <<>>
    IN  IF Len(bytes) >= HEADER_LEN + 16
        THEN LET d == decrypt(MountKey, bytes) IN IF d.ok THEN d.val ELSE <<>>
        ELSE <<>>

WriteRead(t) ==
    /\ pc[t] = "write_read"
    /\ \E ok \in IoOk :
         LET raw == fs_read(loc[t].path, ok)
         IN  Goto(t, op[t],
                  [loc[t] EXCEPT !.plaintext = existing_plaintext(raw),
                                 !.rdErr = ~raw.ok],
                  "write_store")
    /\ UNCHANGED <<regVars, fs, envVars, made, codecVars>>

\* Lines 280-284: extend with zeros to offset + |data|, copy data in at offset.
splice(plaintext, offset, data) ==
    LET end == offset + Len(data)
        ext == IF Len(plaintext) < end
               THEN plaintext \o Fill(end - Len(plaintext), 0)
               ELSE plaintext
    IN  [i \in 1 .. Len(ext) |->
           IF i > offset /\ i <= end THEN data[i - offset] ELSE ext[i]]

\* fs::write(path, ..) replaces or creates the file; it fails on a directory,
\* under a missing parent, or by a fault.
CanWrite(path) == path # source /\ ~IsDir(path) /\ IsDir(SubSeq(path, 1, Len(path) - 1))

WriteStore(t) ==
    /\ pc[t] = "write_store"
    /\ \E nonce \in Nonces, rng \in IoOk, ok \in IoOk :
         LET path == loc[t].path
             plaintext == splice(loc[t].plaintext, op[t].offset, op[t].data)
             ciphertext == encrypt(MountKey, nonce, plaintext)
         IN  IF rng /\ ok /\ CanWrite(path)
             THEN /\ fs' = [fs EXCEPT ![path] = File(ciphertext)]
                  /\ made' = [made EXCEPT ![path] =
                                IF @ = "none" THEN "replaced" ELSE "written"]
                  /\ Finish(t, op[t], [NoReply EXCEPT !.tag = "written",
                                                      !.size = Len(op[t].data)])
             ELSE /\ UNCHANGED <<fs, made>>
                  /\ Finish(t, op[t], Error("EIO"))
    /\ UNCHANGED <<regVars, envVars, loc, codecVars>>

\* unlink
Unlink(t) ==
    /\ pc[t] = "idle"
    /\ \E parent \in Inos, name \in Names, ok \in IoOk :
         LET o == Call("unlink", parent, name, 0, 0, <<>>)
             parent_path == path_for(parent)
             child_path == join(parent_path.val, name)
         IN  IF ~parent_path.some
             THEN Finish(t, o, Error("ENOENT")) /\ UNCHANGED <<fs, made>>
             ELSE IF IsFile(child_path) /\ ok
             THEN /\ fs' = [fs EXCEPT ![child_path] = Absent]
                  /\ made' = [made EXCEPT ![child_path] = "none"]
                  /\ Finish(t, o, [NoReply EXCEPT !.tag = "ok"])
             ELSE Finish(t, o, Error("EIO")) /\ UNCHANGED <<fs, made>>
    /\ UNCHANGED <<regVars, envVars, loc, codecVars>>

\* rmdir (a directory of the modelled tree is always empty)
Rmdir(t) ==
    /\ pc[t] = "idle"
    /\ \E parent \in Inos, name \in Names, ok \in IoOk :
         LET o == Call("rmdir", parent, name, 0, 0, <<>>)
             parent_path == path_for(parent)
             child_path == join(parent_path.val, name)
         IN  IF ~parent_path.some
             THEN Finish(t, o, Error("ENOENT")) /\ UNCHANGED <<fs, made>>
             ELSE IF IsDir(child_path) /\ ok
             THEN /\ fs' = [fs EXCEPT ![child_path] = Absent]
                  /\ made' = [made EXCEPT ![child_path] = "none"]
                  /\ Finish(t, o, [NoReply EXCEPT !.tag = "ok"])
             ELSE Finish(t, o, Error("EIO")) /\ UNCHANGED <<fs, made>>
    /\ UNCHANGED <<regVars, envVars, loc, codecVars>>

\* The dispatcher takes the reply; the thread is free for the next request.
Return(t) ==
    /\ pc[t] = "done"
    /\ pc' = [pc EXCEPT ![t] = "idle"]
    /\ op' = [op EXCEPT ![t] = NoOp]
    /\ loc' = [loc EXCEPT ![t] = NoLoc]
    /\ reply' = [reply EXCEPT ![t] = NoReply]
    /\ UNCHANGED <<regVars, fs, envVars, made, codecVars>>

\* lookup, lines 119-122: path_for, then fs::metadata(child_path).
LookupBegin(t) ==
    /\ pc[t] = "idle"
    /\ \E parent \in Inos, name \in Names :
         LET o == Call("lookup", parent, name, 0, 0, <<>>)
             parent_path == path_for(parent)
             child_path == join(parent_path.val, name)
         IN  IF parent_path.some /\ Exists(child_path)
             THEN Goto(t, o, [NoLoc EXCEPT !.path = child_path,
                                           !.meta = At(child_path)],
                       "lookup_reg")
             ELSE Finish(t, o, Error("ENOENT")) /\ loc' = loc
    /\ UNCHANGED <<regVars, fs, envVars, made, codecVars>>

\* lookup, lines 123-124: register the child and reply with its entry.
LookupReg(t) ==
    /\ pc[t] = "lookup_reg"
    /\ \E r \in {register(inodes, next_ino, loc[t].path)} :
         /\ Register(t, loc[t].path, r)
         /\ Finish(t, op[t], Attr("entry", r.ino, loc[t].meta))
    /\ UNCHANGED <<fs, envVars, loc, made, codecVars>>

\* A child the modelled tree has no place for: its creation is not modelled.
Beyond(parent_path, child_path) == IsDir(parent_path) /\ child_path \notin Paths

\* create, lines 308-316: path_for, then File::create(child_path), which
\* makes an empty file or truncates the one there; it fails on a directory,
\* under a parent that is no directory, or by a fault.
CreateBegin(t) ==
    /\ pc[t] = "idle"
    /\ \E parent \in Inos, name \in Names, ok \in IoOk :
         LET o == Call("create", parent, name, 0, 0, <<>>)
             parent_path == path_for(parent)
             child_path == join(parent_path.val, name)
         IN  IF ~parent_path.some
             THEN Finish(t, o, Error("ENOENT")) /\ UNCHANGED <<fs, made, loc>>
             ELSE /\ ~Beyond(parent_path.val, child_path)
                  /\ IF ok /\ IsDir(parent_path.val) /\ ~IsDir(child_path)
                     THEN /\ fs' = [fs EXCEPT ![child_path] = File(<<>>)]
                          /\ made' = [made EXCEPT ![child_path] = "created"]
                          /\ Goto(t, o, [NoLoc EXCEPT !.path = child_path],
                                  "create_reg")
                     ELSE Finish(t, o, Error("EIO")) /\ UNCHANGED <<fs, made, loc>>
    /\ UNCHANGED <<regVars, envVars, codecVars>>

\* create, line 318: register(child_path).
CreateReg(t) ==
    /\ pc[t] = "create_reg"
    /\ \E r \in {register(inodes, next_ino, loc[t].path)} :
         /\ Register(t, loc[t].path, r)
         /\ Goto(t, op[t], [loc[t] EXCEPT !.ino = r.ino], "create_stat")
    /\ UNCHANGED <<fs, envVars, made, codecVars>>

\* fs::metadata(child_path).unwrap() and the reply; the unwrap panics when
\* the entry is gone again, and the handler sends nothing.
StatReply(t, tag) ==
    IF Exists(loc[t].path)
    THEN Finish(t, op[t], Attr(tag, loc[t].ino, At(loc[t].path)))
    ELSE /\ pc' = [pc EXCEPT ![t] = "panic"]
         /\ UNCHANGED <<op, reply>>

\* create, lines 319-320.
CreateStat(t) ==
    /\ pc[t] = "create_stat"
    /\ StatReply(t, "created")
    /\ UNCHANGED <<regVars, fs, envVars, loc, made, codecVars>>

\* mkdir, lines 350-358: path_for, then fs::create_dir(child_path), which
\* fails when the entry exists, under a parent that is no directory, or by a
\* fault.
MkdirBegin(t) ==
    /\ pc[t] = "idle"
    /\ \E parent \in Inos, name \in Names, ok \in IoOk :
         LET o == Call("mkdir", parent, name, 0, 0, <<>>)
             parent_path == path_for(parent)
             child_path == join(parent_path.val, name)
         IN  IF ~parent_path.some
             THEN Finish(t, o, Error("ENOENT")) /\ UNCHANGED <<fs, made, loc>>
             ELSE /\ ~Beyond(parent_path.val, child_path)
                  /\ IF ok /\ IsDir(parent_path.val) /\ ~Exists(child_path)
                     THEN /\ fs' = [fs EXCEPT ![child_path] = Dir]
                          /\ Goto(t, o, [NoLoc EXCEPT !.path = child_path],
                                  "mkdir_reg")
                          /\ made' = made
                     ELSE Finish(t, o, Error("EIO")) /\ UNCHANGED <<fs, made, loc>>
    /\ UNCHANGED <<regVars, envVars, codecVars>>

\* mkdir, line 360.
MkdirReg(t) ==
    /\ pc[t] = "mkdir_reg"
    /\ \E r \in {register(inodes, next_ino, loc[t].path)} :
         /\ Register(t, loc[t].path, r)
         /\ Goto(t, op[t], [loc[t] EXCEPT !.ino = r.ino], "mkdir_stat")
    /\ UNCHANGED <<fs, envVars, made, codecVars>>

\* mkdir, lines 361-362.
MkdirStat(t) ==
    /\ pc[t] = "mkdir_stat"
    /\ StatReply(t, "entry")
    /\ UNCHANGED <<regVars, fs, envVars, loc, made, codecVars>>

\* One entry of a directory reply.
DirEntry(ino, kind, name) == [ino |-> ino, kind |-> kind, name |-> name]

\* readdir, lines 141-152: path_for, then path.is_dir().
ReaddirBegin(t) ==
    /\ pc[t] = "idle"
    /\ \E ino \in Inos :
         LET o == Call("readdir", ino, "", 0, 0, <<>>)
             path == path_for(ino)
         IN  IF ~path.some
             THEN Finish(t, o, Error("ENOENT")) /\ loc' = loc
             ELSE IF ~IsDir(path.val)
             THEN Finish(t, o, Error("ENOTDIR")) /\ loc' = loc
             ELSE Goto(t, o, [NoLoc EXCEPT !.path = path.val], "readdir_list")
    /\ UNCHANGED <<regVars, fs, envVars, made, codecVars>>

\* The names fs::read_dir(path) yields, in each order the backing store may
\* give them.
Children(path) == {n \in Names : Exists(join(path, n))}
Orders(S) == {s \in [1 .. Cardinality(S) -> S] : \A n \in S : \E i \in DOMAIN s : s[i] = n}

\* readdir, lines 154-165: fs::read_dir(path), and the "." and ".." entries.
ReaddirList(t) ==
    /\ pc[t] = "readdir_list"
    /\ \E ok \in IoOk :
         IF ok /\ IsDir(loc[t].path)
         THEN \E order \in Orders(Children(loc[t].path)) :
                Goto(t, op[t],
                     [loc[t] EXCEPT !.entries = order,
                                    !.all = <<DirEntry(op[t].ino, "Directory", "."),
                                              DirEntry(op[t].ino, "Directory", "..")>>],
                     "readdir_entry")
         ELSE Finish(t, op[t], Error("EIO")) /\ loc' = loc
    /\ UNCHANGED <<regVars, fs, envVars, made, codecVars>>

\* readdir, lines 167-177: one turn of the loop over the entries.
ReaddirEntry(t) ==
    /\ pc[t] = "readdir_entry"
    /\ loc[t].entries # <<>>
    /\ LET child_path == join(loc[t].path, Head(loc[t].entries))
           kind == IF IsDir(child_path) THEN "Directory" ELSE "RegularFile"
       IN  \E r \in {register(inodes, next_ino, child_path)} :
             /\ Register(t, child_path, r)
             /\ Goto(t, op[t],
                     [loc[t] EXCEPT !.entries = Tail(@),
                                    !.all = Append(@, DirEntry(r.ino, kind,
                                                               Head(loc[t].entries)))],
                     "readdir_entry")
    /\ UNCHANGED <<fs, envVars, made, codecVars>>

\* A reply whose cursors are the entries' own positions.
dir_reply_CursorIsIndex(all, offset, buf) ==
    LET last == Min(Len(all), offset + buf)
    IN  [k \in 1 .. (IF last > offset THEN last - offset ELSE 0) |->
           [ino |-> all[offset + k].ino, cursor |-> offset + k - 1,
            kind |-> all[offset + k].kind, name |-> all[offset + k].name]]

\* Lines 179-183: the entries from offset on, each with cursor i + 1, until
\* reply.add reports the buffer full (it holds buf entries).
dir_reply(all, offset, buf) ==
    LET last == Min(Len(all), offset + buf)
    IN  [k \in 1 .. (IF last > offset THEN last - offset ELSE 0) |->
           [ino |-> all[offset + k].ino, cursor |-> offset + k,
            kind |-> all[offset + k].kind, name |-> all[offset + k].name]]

\* readdir, lines 179-184.  The request's offset and the room in its reply
\* buffer are first read here, so they are drawn here.
ReaddirReply(t) ==
    /\ pc[t] = "readdir_entry"
    /\ loc[t].entries = <<>>
    /\ \E offset \in 0 .. Cardinality(Paths) + 1, buf \in DirBufs :
         Finish(t, [op[t] EXCEPT !.offset = offset, !.size = buf],
                [NoReply EXCEPT !.tag = "dir",
                                !.entries = dir_reply(loc[t].all, offset, buf)])
    /\ UNCHANGED <<regVars, fs, envVars, loc, made, codecVars>>

\* --------------------------------------------------------- specifications

\* Entries the backing directory may hold when the filesystem is mounted.
Before == {Absent, Junk, Foreign}

CodecIdle ==
    /\ cKey = MountKey /\ cKey2 = MountKey /\ cPlain = <<>>
    /\ cBlob = <<>> /\ cOut = Err /\ cpc = "off"

\* CipherFS::new: the registry holds the root, the counter is at 2.
Mounted ==
    /\ inodes = (ROOT_INO :> source)
    /\ next_ino = 2
    /\ map_lock = ""
    /\ handed = {}
    /\ fs \in {f \in [Paths -> Before \cup {Dir}] : f[source] = Dir /\
                  \A n \in Names : f[<<n>>] \in Before}
    /\ made = [p \in Paths |-> "none"]
    /\ op = [t \in Threads |-> NoOp]
    /\ loc = [t \in Threads |-> NoLoc]
    /\ reply = [t \in Threads |-> NoReply]

\* The handler as fuser drives it: one request at a time.
Init ==
    /\ Mounted
    /\ ioFaults = TRUE
    /\ raceBase = <<>>
    /\ pc = [t \in Threads |-> IF t = "t1" THEN "idle" ELSE "off"]
    /\ CodecIdle

Step(t) ==
    \/ Getattr(t) \/ Open(t) \/ Read(t)
    \/ WriteBegin(t) \/ WriteRead(t) \/ WriteStore(t)
    \/ LookupBegin(t) \/ LookupReg(t)
    \/ CreateBegin(t) \/ CreateReg(t) \/ CreateStat(t)
    \/ MkdirBegin(t) \/ MkdirReg(t) \/ MkdirStat(t)
    \/ ReaddirBegin(t) \/ ReaddirList(t) \/ ReaddirEntry(t) \/ ReaddirReply(t)
    \/ Unlink(t) \/ Rmdir(t)
    \/ Return(t)

Next == \E t \in Threads : Step(t)

Spec == Init /\ [][Next]_vars

\* The handler entered by two threads at once, for the operations that read
\* or grow the registry or make and remove backing entries.  These never look
\* inside a file, so one kind of earlier file stands for all.
InitConc ==
    /\ Mounted
    /\ \A n \in Names : fs[<<n>>] \in {Absent, Junk}
    /\ ioFaults = FALSE
    /\ raceBase = <<>>
    /\ pc = [t \in Threads |-> "idle"]
    /\ CodecIdle

StepConc(t) ==
    \/ LookupBegin(t) \/ LookupReg(t)
    \/ CreateBegin(t) \/ CreateReg(t) \/ CreateStat(t)
    \/ MkdirBegin(t) \/ MkdirReg(t) \/ MkdirStat(t)
    \/ ReaddirBegin(t) \/ ReaddirList(t) \/ ReaddirEntry(t) \/ ReaddirReply(t)
    \/ Unlink(t) \/ Rmdir(t)
    \/ Return(t)

NextConc == \E t \in Threads : StepConc(t)

SpecConc == InitConc /\ [][NextConc]_vars

\* A mutex that never makes a thread wait.
CanLock_Always(holder) == TRUE

\* register step by step, entered by two threads at once.  The inodes mutex
\* is map_lock: the thread holding it, or "" when it is free.
CanLock(holder) == holder = ""

\* HashMap::insert
insert(map, ino, path) ==
    [i \in DOMAIN map \cup {ino} |-> IF i = ino THEN path ELSE map[i]]

RegCall(t) ==
    /\ pc[t] = "idle"
    /\ \E path \in Paths :
         Goto(t, [NoOp EXCEPT !.name = "register"],
              [NoLoc EXCEPT !.path = path], "reg_lock")
    /\ UNCHANGED <<regVars, fs, envVars, made, codecVars>>

\* Line 53: self.inodes.lock() blocks until the mutex is free.
RegLock(t) ==
    /\ pc[t] = "reg_lock"
    /\ CanLock(map_lock)
    /\ map_lock' = t
    /\ Goto(t, op[t], loc[t], "reg_scan")
    /\ UNCHANGED <<inodes, next_ino, handed, fs, envVars, made, codecVars>>

\* Lines 55-59: the first entry found with this path is returned.
RegScan(t) ==
    /\ pc[t] = "reg_scan"
    /\ LET found == {i \in DOMAIN inodes : inodes[i] = loc[t].path}
       IN  IF found # {}
           THEN \E i \in found :
                  Goto(t, op[t], [loc[t] EXCEPT !.ino = i], "reg_return")
           ELSE Goto(t, op[t], loc[t], "reg_alloc")
    /\ UNCHANGED <<regVars, fs, envVars, made, codecVars>>

\* Lines 60-65: the counter is read and advanced under its own mutex.
RegAlloc(t) ==
    /\ pc[t] = "reg_alloc"
    /\ next_ino' = next_ino + 1
    /\ Goto(t, op[t], [loc[t] EXCEPT !.ino = next_ino], "reg_insert")
    /\ UNCHANGED <<inodes, map_lock, handed, fs, envVars, made, codecVars>>

\* Line 66
RegInsert(t) ==
    /\ pc[t] = "reg_insert"
    /\ inodes' = insert(inodes, loc[t].ino, loc[t].path)
    /\ Goto(t, op[t], loc[t], "reg_return")
    /\ UNCHANGED <<next_ino, map_lock, handed, fs, envVars, made, codecVars>>

\* Lines 57 and 67: the guard is dropped and the inode returned.
RegReturn(t) ==
    /\ pc[t] = "reg_return"
    /\ map_lock' = ""
    /\ handed' = handed \cup {<<loc[t].path, loc[t].ino>>}
    /\ Finish(t, op[t], [NoReply EXCEPT !.tag = "ino", !.ino = loc[t].ino])
    /\ UNCHANGED <<inodes, next_ino, loc, fs, envVars, made, codecVars>>

InitReg ==
    /\ Mounted
    /\ \A n \in Names : fs[<<n>>] = Absent
    /\ ioFaults = FALSE
    /\ raceBase = <<>>
    /\ pc = [t \in Threads |-> "idle"]
    /\ CodecIdle

StepReg(t) ==
    \/ RegCall(t) \/ RegLock(t) \/ RegScan(t)
    \/ RegAlloc(t) \/ RegInsert(t) \/ RegReturn(t)
    \/ Return(t)

NextReg == \E t \in Threads : StepReg(t)

SpecReg == InitReg /\ [][NextReg]_vars

\* Two writes in flight at once on a file the handler created and wrote.  The
\* file is registered, it holds the envelope of raceBase (or nothing, when it
\* was created and never written), and every backing call succeeds.
RacePath == <<"a">>
RaceBases == {<<>>, <<7>>, <<7, 8, 9>>}
Registered == register((ROOT_INO :> source), ROOT_INO + 1, RacePath)

InitRace ==
    /\ raceBase \in RaceBases
    /\ inodes = Registered.map
    /\ next_ino = Registered.next
    /\ map_lock = ""
    /\ handed = {<<RacePath, Registered.ino>>}
    /\ \E raw \in {encrypt(MountKey, Fill(HEADER_LEN, 5), raceBase)}
                    \cup (IF raceBase = <<>> THEN {<<>>} ELSE {}) :
         /\ fs = [p \in Paths |-> IF p = source THEN Dir
                                  ELSE IF p = RacePath THEN File(raw) ELSE Absent]
         /\ made = [p \in Paths |-> IF p # RacePath THEN "none"
                                    ELSE IF raw = <<>> THEN "created" ELSE "written"]
    /\ op = [t \in Threads |-> NoOp]
    /\ loc = [t \in Threads |-> NoLoc]
    /\ reply = [t \in Threads |-> NoReply]
    /\ ioFaults = FALSE
    /\ pc = [t \in Threads |-> "idle"]
    /\ CodecIdle

StepRace(t) == WriteBegin(t) \/ WriteRead(t) \/ WriteStore(t)

NextRace == \E t \in Threads : StepRace(t)

SpecRace == InitRace /\ [][NextRace]_vars

\* ------------------------------------------------------ the codec on its own

\* Keys and plaintexts the codec is tried on.
Keys == {MountKey, OtherKey, Fill(KEY_LEN, 255)}
PlainBytes == {0, 1, 255}
Plains == UNION {[1 .. n -> PlainBytes] : n \in 0 .. MaxLen}

\* No handler runs.
HandlerOff ==
    /\ inodes = (ROOT_INO :> source) /\ next_ino = 2 /\ map_lock = ""
    /\ handed = {} /\ fs = [p \in Paths |-> IF p = source THEN Dir ELSE Absent]
    /\ made = [p \in Paths |-> "none"] /\ ioFaults = FALSE /\ raceBase = <<>>
    /\ pc = [t \in Threads |-> "off"] /\ op = [t \in Threads |-> NoOp]
    /\ loc = [t \in Threads |-> NoLoc] /\ reply = [t \in Threads |-> NoReply]

handlerVars == <<regVars, fs, envVars, thrVars, made>>

InitCodec ==
    /\ HandlerOff
    /\ cKey \in Keys /\ cKey2 \in Keys /\ cPlain \in Plains
    /\ cBlob = <<>> /\ cOut = Err /\ cpc = "start"

\* encrypt(cKey, cPlain): the RNG fills the nonce or fails.
CodecEncrypt ==
    /\ cpc = "start"
    /\ \E nonce \in Nonces, rng \in BOOLEAN :
         IF rng THEN cBlob' = encrypt(cKey, nonce, cPlain) /\ cpc' = "sealed"
         ELSE cBlob' = cBlob /\ cpc' = "rng_failed"
    /\ UNCHANGED <<handlerVars, cKey, cKey2, cPlain, cOut>>

\* A blob that encrypt did not make: as short as the truncated-input test's.
CodecShort ==
    /\ cpc = "start"
    /\ \E n \in {0, 10, HEADER_LEN + 16 - 1} : cBlob' = Fill(n, 0)
    /\ cpc' = "foreign"
    /\ UNCHANGED <<handlerVars, cKey, cKey2, cPlain, cOut>>

\* The blob is cut short or one byte of it is changed.
CodecDamage ==
    /\ cpc = "sealed"
    /\ \/ \E n \in {0, HEADER_LEN, HEADER_LEN + 16 - 1, Len(cBlob) - 1} :
            cBlob' = SubSeq(cBlob, 1, n)
       \/ \E i \in {1, HEADER_LEN, HEADER_LEN + 1, Len(cBlob)} :
            cBlob' = [cBlob EXCEPT ![i] = (@ + 1) % 256]
    /\ cpc' = "damaged"
    /\ UNCHANGED <<handlerVars, cKey, cKey2, cPlain, cOut>>

\* decrypt(cKey2, cBlob)
CodecDecrypt ==
    /\ cpc \in {"sealed", "damaged", "foreign"}
    /\ cOut' = decrypt(cKey2, cBlob)
    /\ cpc' = IF cpc = "sealed" THEN "opened" ELSE "refused"
    /\ UNCHANGED <<handlerVars, cKey, cKey2, cPlain, cBlob>>

NextCodec == CodecEncrypt \/ CodecShort \/ CodecDamage \/ CodecDecrypt

SpecCodec == InitCodec /\ [][NextCodec]_vars

\* ------------------------------------------------------------------ claims

\* The plaintext a backing entry holds: what its envelope opens to under the
\* mount key; nothing for an empty file, a missing entry or no envelope.
Holds(e, P) ==
    \/ e.kind = "file" /\ decrypt(MountKey, e.data) = Ok(P)
    \/ P = <<>> /\ (e.kind # "file" \/ ~decrypt(MountKey, e.data).ok)

Stored(e) == CHOOSE P \in {decrypt(MountKey, e.data).val, <<>>} : Holds(e, P)

Max(a, b) == IF a > b THEN a ELSE b

\* Pn is P with data written at offset, holes zero-filled.
IsSplice(P, Pn, offset, data) ==
    /\ Len(Pn) = Max(Len(P), offset + Len(data))
    /\ \A i \in 1 .. Len(Pn) :
         IF i > offset /\ i <= offset + Len(data) THEN Pn[i] = data[i - offset]
         ELSE IF i <= Len(P) THEN Pn[i] = P[i]
         ELSE Pn[i] = 0

\* The file at p came from create, and from writes after it.
Created(p) == made[p] \in {"created", "written"}

\* Thread t ends, in this step, a write that replies written.
Wrote(t) ==
    /\ pc[t] = "write_store" /\ pc'[t] = "done"
    /\ reply'[t].tag = "written"

\* Thread t ends an operation in this step.
Ends(t, name) == pc[t] # "done" /\ pc'[t] = "done" /\ op'[t].name = name

\* C1: every write that replies written, to a file created through the
\* handler, leaves stored the splice of data at offset into the plaintext
\* stored before it, and a read of [0, |P'|) returns the stored plaintext.
C1_WriteIsSplice ==
    [][\A t \in Threads :
         /\ Wrote(t) /\ Created(loc[t].path) =>
              IsSplice(Stored(fs[loc[t].path]), Stored(fs'[loc[t].path]),
                       op[t].offset, op[t].data)
         /\ (Ends(t, "read") /\ path_for(op'[t].ino).some
               /\ Created(loc'[t].path) /\ ~loc'[t].rdErr /\ op'[t].offset = 0
               /\ op'[t].size >= Len(Stored(fs[loc'[t].path]))) =>
              reply'[t] = [NoReply EXCEPT !.tag = "data",
                                          !.data = Stored(fs[loc'[t].path])]]_vars

\* C5: a regular file the handler produced is zero bytes long until it is
\* written, and from then on an envelope of |plaintext| + 28 bytes: 12 of
\* nonce, the plaintext's length of ciphertext, 16 of tag.
C5_BackingLength ==
    \A p \in Paths :
      /\ made[p] = "created" => fs[p].kind = "file" /\ Len(fs[p].data) = 0
      /\ made[p] \in {"written", "replaced"} =>
           LET plaintext == decrypt(MountKey, fs[p].data)
           IN  /\ fs[p].kind = "file"
               /\ plaintext.ok
               /\ Len(fs[p].data) = Len(plaintext.val) + 28
               /\ Len(fs[p].data) = 12 + Len(plaintext.val) + 16

C5_Witness ==
    \E p \in Paths : made[p] = "written" /\ Len(fs[p].data) = MaxLen + 28

\* The inode an operation names is registered and its backing entry is gone.
Stale(ino) == path_for(ino).some /\ ~Exists(path_for(ino).val)

StaleOps == {"getattr", "open", "read", "write"}

\* C7 as claimed: every getattr, open, read and write on a registered inode
\* whose backing entry is gone replies ENOENT.
C7_StaleRepliesEnoent ==
    [][\A t \in Threads :
         (pc'[t] = "done" /\ pc[t] # "done" /\ op'[t].name \in StaleOps
            /\ Stale(op'[t].ino)) => reply'[t] = Error("ENOENT")]_vars

\* C7 as the code has it: unlink and rmdir leave the registry as it is, and
\* on a registered inode whose backing entry is gone getattr replies
\* ENOENT, open succeeds, read replies EIO, and write either stores the
\* envelope of zero fill plus data in a new file and replies written, or
\* replies EIO and stores nothing.
C7_StaleReplies ==
    [][\A t \in Threads :
         /\ (Ends(t, "unlink") \/ Ends(t, "rmdir")) =>
              inodes' = inodes /\ next_ino' = next_ino
         /\ (pc'[t] = "done" /\ pc[t] # "done" /\ Stale(op'[t].ino)) =>
              LET p == path_for(op'[t].ino).val
                  o == op'[t]
                  r == reply'[t]
              IN  /\ o.name = "getattr" => r = Error("ENOENT")
                  /\ o.name = "open" => r.tag = "opened"
                  /\ o.name = "read" => r = Error("EIO")
                  /\ o.name = "write" =>
                       \/ /\ r.tag = "written" /\ r.size = Len(o.data)
                          /\ Holds(fs'[p], Fill(o.offset, 0) \o o.data)
                       \/ r = Error("EIO") /\ fs' = fs]_vars

C7_Witness ==
    \E t \in Threads :
      /\ pc[t] = "done" /\ op[t].name = "read" /\ reply[t] = Error("EIO")
      /\ op[t].ino # ROOT_INO /\ Stale(op[t].ino)
      /\ made[path_for(op[t].ino).val] = "none"

\* C8: an operation called with an inode the registry does not hold replies
\* ENOENT at once and changes neither the registry nor the backing store.
C8_UnknownInode ==
    [][\A t \in Threads :
         (pc[t] = "idle" /\ pc'[t] # "idle" /\ op'[t].ino \notin DOMAIN inodes) =>
           /\ pc'[t] = "done" /\ reply'[t] = Error("ENOENT")
           /\ inodes' = inodes /\ next_ino' = next_ino /\ fs' = fs]_vars

C8_Witness ==
    \E t \in Threads :
      /\ pc[t] = "done" /\ op[t].name = "create" /\ op[t].ino \notin DOMAIN inodes
      /\ reply[t] = Error("ENOENT")

\* C9: a read whose load of the backing file yields fewer than 28 bytes
\* replies with an empty buffer; one whose load yields 28 bytes or more that
\* do not decrypt replies EIO, with no data.
C9_ReadShortOrCorrupt ==
    \A t \in Threads :
      (pc[t] = "done" /\ op[t].name = "read" /\ path_for(op[t].ino).some
         /\ ~loc[t].rdErr) =>
        LET raw == fs[loc[t].path].data
        IN  /\ Len(raw) < 28 => reply[t] = [NoReply EXCEPT !.tag = "data"]
            /\ (Len(raw) >= 28 /\ ~decrypt(MountKey, raw).ok) =>
                 reply[t] = Error("EIO") /\ reply[t].data = <<>>

C9_Witness ==
    \E t \in Threads :
      /\ pc[t] = "done" /\ op[t].name = "read" /\ path_for(op[t].ino).some
      /\ ~loc[t].rdErr /\ Len(fs[loc[t].path].data) >= 28
      /\ ~decrypt(MountKey, fs[loc[t].path].data).ok
      /\ reply[t] = Error("EIO")

\* C10: a write replies written = |data| only when no backing step of it
\* failed, replies EIO otherwise, and stores nothing when it replies EIO.
C10_WriteReplies ==
    [][\A t \in Threads :
         (pc[t] = "write_store" /\ pc'[t] = "done") =>
           /\ reply'[t].tag = "written" =>
                reply'[t].size = Len(op[t].data) /\ ~loc[t].rdErr
           /\ loc[t].rdErr => reply'[t] = Error("EIO")
           /\ reply'[t].tag # "written" => reply'[t] = Error("EIO") /\ fs' = fs]_vars

\* C2: decrypt under the key encrypt used succeeds and returns the plaintext
\* encrypt was given, the empty one too.
C2_RoundTrip ==
    (cpc = "opened" /\ cKey2 = cKey) => cOut = Ok(cPlain)

C2_Witness ==
    /\ cpc = "opened" /\ cKey2 = cKey /\ cPlain = <<>>
    /\ Len(cBlob) = 28 /\ cOut = Ok(<<>>)

\* C3: a pair register has returned stays: the inode still names the path,
\* register(path) still returns the inode, no path was ever given two
\* inodes, and two lookups of one name reply with one inode number.
C3_RegisterStable ==
    [][/\ \A i \in DOMAIN inodes : path_for(i)' = path_for(i)
       /\ \A h \in handed' :
            /\ path_for(h[2])' = Some(h[1])
            /\ register(inodes', next_ino', h[1]).ino = h[2]
            /\ \A g \in handed' : g[1] = h[1] => g[2] = h[2]
       /\ \A t, u \in Threads :
            (pc'[t] = "done" /\ pc'[u] = "done"
               /\ op'[t].name = "lookup" /\ op'[u].name = "lookup"
               /\ op'[t].ino = op'[u].ino /\ op'[t].nm = op'[u].nm
               /\ reply'[t].tag = "entry" /\ reply'[u].tag = "entry") =>
              reply'[t].ino = reply'[u].ino]_vars

\* A create replies with the inode its path had before another path was
\* registered, after an unlink of that name that the other thread has done.
C3_Witness ==
    \E t, u \in Threads :
      /\ pc[t] = "done" /\ op[t].name = "create" /\ reply[t].tag = "created"
      /\ reply[t].ino = 2 /\ next_ino = 4
      /\ pc[u] = "done" /\ op[u].name = "unlink" /\ op[u].nm = op[t].nm
      /\ op[u].ino = op[t].ino /\ reply[u].tag = "ok"

\* C4: with register calls interleaved, no path is bound to two inodes (and
\* no inode to two paths), inode 1 is bound to the backing root, every other
\* bound inode is at least 2, and an inode the counter gave out is in the map,
\* bound to the caller's path, before register returns it.
C4_RegistryInjective ==
    /\ \A i, j \in DOMAIN inodes : inodes[i] = inodes[j] => i = j
    /\ path_for(ROOT_INO) = Some(source)
    /\ \A i \in DOMAIN inodes : i = ROOT_INO \/ i >= 2
    /\ \A t \in Threads :
         (pc[t] \in {"reg_return", "done"} /\ op[t].name = "register") =>
           path_for(loc[t].ino) = Some(loc[t].path)
    /\ \A t \in Threads :
         (pc[t] = "done" /\ op[t].name = "register") => reply[t].ino = loc[t].ino
    /\ \A h \in handed : path_for(h[2]) = Some(h[1])
    /\ \A i \in 2 .. next_ino - 1 :
         \/ i \in DOMAIN inodes
         \/ \E t \in Threads : pc[t] = "reg_insert" /\ loc[t].ino = i /\ map_lock = t

\* Both threads registered one new path at once and got one inode, the only
\* one the counter gave out.
C4_Witness ==
    /\ \A t \in Threads :
         /\ pc[t] = "done" /\ op[t].name = "register"
         /\ loc[t].path = RacePath /\ reply[t].ino = 2
    /\ next_ino = 3

\* C6: two writes W1 and W2 on the inode of a file holding plaintext P, both
\* replied written: the file is an envelope that opens, and its plaintext is
\* splice(splice(P,W1),W2), splice(splice(P,W2),W1), splice(P,W1) or
\* splice(P,W2).
RaceDone ==
    \A t \in Threads :
      /\ pc[t] = "done" /\ op[t].name = "write"
      /\ op[t].ino = Registered.ino /\ reply[t].tag = "written"

After(P, t) == splice(P, op[t].offset, op[t].data)

C6_RaceOutcomes ==
    RaceDone =>
      LET d == decrypt(MountKey, fs[RacePath].data)
      IN  /\ d.ok
          /\ d.val \in {After(After(raceBase, "t1"), "t2"),
                        After(After(raceBase, "t2"), "t1"),
                        After(raceBase, "t1"), After(raceBase, "t2")}

\* One writer's data is lost: the file holds splice(P,W1), which neither
\* order of the two writes gives.
C6_Witness ==
    /\ RaceDone
    /\ Stored(fs[RacePath]) = After(raceBase, "t1")
    /\ Stored(fs[RacePath]) # After(After(raceBase, "t2"), "t1")
    /\ Stored(fs[RacePath]) # After(After(raceBase, "t1"), "t2")

\* C11: getattr on a regular file reports the length of the backing file:
\* 0 for a file created and not yet written, |plaintext| + 28 for a written
\* one, and a read of [0, size) then returns size - 28 bytes, the plaintext.
C11_SizeIsBackingLength ==
    \A t \in Threads :
      (pc[t] = "done" /\ op[t].name = "getattr" /\ reply[t].tag = "attr"
         /\ reply[t].kind = "RegularFile") =>
        LET p == inodes[op[t].ino]
            raw == fs[p].data
            size == reply[t].size
        IN  /\ size = Len(raw)
            /\ made[p] = "created" => size = 0
            /\ made[p] \in {"written", "replaced"} =>
                 /\ size = Len(Stored(fs[p])) + 28
                 /\ read_reply(Ok(raw), 0, size) =
                      [NoReply EXCEPT !.tag = "data", !.data = Stored(fs[p])]
                 /\ Len(read_reply(Ok(raw), 0, size).data) = size - 28

C11_Witness ==
    \E t \in Threads :
      /\ pc[t] = "done" /\ op[t].name = "getattr" /\ reply[t].tag = "attr"
      /\ made[inodes[op[t].ino]] = "written"
      /\ reply[t].size = MaxLen + 28

\* C12: decrypt of a blob shorter than 28 bytes fails, under every key, and
\* yields no plaintext.
C12_ShortBlobFails ==
    (cpc = "refused" /\ Len(cBlob) < 28) => cOut = Err /\ cOut.val = <<>>

C12_Witness ==
    /\ cpc = "refused" /\ Len(cBlob) = 27 /\ cBlob # Fill(27, 0)
    /\ cOut = Err

\* C13: decrypt under a key other than the one encrypt used fails, and the
\* read of a handler mounted with another key than the file's replies EIO.
C13_WrongKeyFails ==
    /\ (cpc = "opened" /\ cKey2 # cKey) => cOut = Err
    /\ (cpc \in {"sealed", "opened"} /\ cKey # MountKey) =>
         \A offset \in Offsets, size \in Sizes :
           read_reply(Ok(cBlob), offset, size) = Error("EIO")

C13_Witness ==
    /\ cpc = "opened" /\ cKey # MountKey /\ cKey2 = MountKey
    /\ cPlain # <<>> /\ cOut = Err

\* The nonce at the front of a blob.
NonceOf(blob) == SubSeq(blob, 1, HEADER_LEN)

\* The file at p holds a blob a write of the handler stored.
Sealed(p) == made[p] \in {"written", "replaced"}

Undecryptable(t) ==
    /\ pc[t] = "write_store" /\ pc'[t] = "done"
    /\ IsFile(loc[t].path) /\ ~loc[t].rdErr
    /\ Len(fs[loc[t].path].data) >= 28
    /\ ~decrypt(MountKey, fs[loc[t].path].data).ok

\* C15: a write that finds a backing file of 28 bytes or more that does not
\* decrypt starts from the empty plaintext: it stores a valid envelope of
\* zero fill up to offset followed by data and replies written = |data|; the
\* failed decrypt brings no EIO (only a failed encrypt or store does, and
\* then the file stays as it was).
C15_UndecryptableIsEmpty ==
    [][\A t \in Threads :
         Undecryptable(t) =>
           /\ loc[t].plaintext = <<>>
           /\ \/ /\ reply'[t] = [NoReply EXCEPT !.tag = "written",
                                                !.size = Len(op[t].data)]
                 /\ decrypt(MountKey, fs'[loc[t].path].data) =
                      Ok(Fill(op[t].offset, 0) \o op[t].data)
              \/ /\ reply'[t] = Error("EIO")
                 /\ fs' = fs]_vars

\* A write has read a file enveloped under another key and goes on to store
\* with the empty plaintext.
C15_Witness ==
    \E t \in Threads :
      /\ pc[t] = "write_store" /\ op[t].name = "write" /\ op[t].offset > 0
      /\ fs[loc[t].path] = Foreign /\ ~loc[t].rdErr
      /\ loc[t].plaintext = <<>>

\* The place of a backing entry in the life of a file.
Life(e) ==
    IF e.kind = "absent" THEN "Absent"
    ELSE IF e.kind = "file" /\ Len(e.data) = 0 THEN "Empty"
    ELSE IF e.kind = "file" /\ Len(e.data) >= 28 THEN "Enveloped"
    ELSE "Other"

\* C16: a step of the handler moves a backing file only from Absent to Empty
\* (by create), from Empty to Enveloped (by write), from Enveloped to
\* Enveloped, or to Absent (by unlink): never from Enveloped to Empty, never
\* from Absent to Enveloped.
C16_FileLifecycle ==
    [][\A p \in Paths :
         LET a == Life(fs[p])
             b == Life(fs'[p])
         IN  (a # b /\ {a, b} \subseteq {"Absent", "Empty", "Enveloped"}) =>
               \E t \in Threads :
                 \/ a = "Absent" /\ b = "Empty" /\ op'[t].name = "create"
                 \/ a = "Empty" /\ b = "Enveloped" /\ op'[t].name = "write"
                 \/ b = "Absent" /\ op'[t].name = "unlink"]_vars

\* Thread t has read, through a known inode, a file that decrypts.
ReadPlain(t) ==
    /\ pc[t] = "done" /\ op[t].name = "read" /\ op[t].ino \in DOMAIN inodes
    /\ ~loc[t].rdErr /\ Len(fs[loc[t].path].data) >= 28
    /\ decrypt(MountKey, fs[loc[t].path].data).ok

\* C17: a read of a file that decrypts to P replies with the bytes of P from
\* offset up to min(offset + size, |P|), and with the empty buffer (no
\* error) when offset is |P| or more.
C17_ReadClips ==
    \A t \in Threads :
      ReadPlain(t) =>
        LET P == decrypt(MountKey, fs[loc[t].path].data).val
            offset == op[t].offset
            end == IF offset + op[t].size < Len(P) THEN offset + op[t].size
                   ELSE Len(P)
        IN  /\ reply[t].tag = "data"
            /\ offset < Len(P) =>
                 reply[t].data = [i \in 1 .. end - offset |-> P[offset + i]]
            /\ offset >= Len(P) => reply[t].data = <<>>

\* A read from inside the plaintext to past its end.
C17_Witness ==
    \E t \in Threads :
      /\ ReadPlain(t)
      /\ op[t].offset > 0 /\ op[t].offset < Len(Stored(fs[loc[t].path]))
      /\ op[t].offset + op[t].size > Len(Stored(fs[loc[t].path]))
      /\ Len(reply[t].data) = Len(Stored(fs[loc[t].path])) - op[t].offset

\* C18: readdir on a directory enumerates e_0 = ".", e_1 = "..", then each
\* backing entry once, and replies with the entries e_i, i >= offset, in
\* order, as many as the reply holds, e_i carrying cursor i + 1; a readdir of
\* the same enumeration from the last cursor returned begins with the entry
\* after the last one returned.  On a known inode whose path is no directory
\* it replies ENOTDIR.
C18_ReaddirCursors ==
    [][\A t \in Threads :
         /\ (pc[t] = "readdir_entry" /\ pc'[t] = "done") =>
              LET e == loc[t].all
                  offset == op'[t].offset
                  r == reply'[t].entries
                  left == IF Len(e) > offset THEN Len(e) - offset ELSE 0
              IN  /\ reply'[t].tag = "dir"
                  /\ e[1].name = "." /\ e[2].name = ".."
                  /\ Len(e) = 2 + Cardinality(Children(loc[t].path))
                  /\ {e[i].name : i \in 3 .. Len(e)} = Children(loc[t].path)
                  /\ \A i \in 3 .. Len(e) :
                       /\ e[i].ino \in DOMAIN inodes
                       /\ inodes[e[i].ino] = join(loc[t].path, e[i].name)
                  /\ Len(r) = (IF left < op'[t].size THEN left ELSE op'[t].size)
                  /\ \A k \in 1 .. Len(r) :
                       /\ r[k].name = e[offset + k].name
                       /\ r[k].ino = e[offset + k].ino
                       /\ r[k].kind = e[offset + k].kind
                       /\ r[k].cursor = (offset + k - 1) + 1
                  /\ (Len(r) > 0 /\ r[Len(r)].cursor < Len(e)) =>
                       \A buf \in DirBufs :
                         LET next == dir_reply(e, r[Len(r)].cursor, buf)
                         IN  /\ next[1].name = e[offset + Len(r) + 1].name
                             /\ next[1].cursor = r[Len(r)].cursor + 1
         /\ (pc[t] = "idle" /\ op'[t].name = "readdir"
               /\ op'[t].ino \in DOMAIN inodes
               /\ fs[inodes[op'[t].ino]].kind # "dir") =>
              pc'[t] = "done" /\ reply'[t] = Error("ENOTDIR")]_vars

\* A readdir of a directory of two entries from offset 2 into a reply that
\* holds one entry: the first backing entry, with cursor 3.
C18_Witness ==
    \E t \in Threads :
      /\ pc[t] = "done" /\ op[t].name = "readdir" /\ reply[t].tag = "dir"
      /\ Len(loc[t].all) = 4 /\ op[t].offset = 2
      /\ Len(reply[t].entries) = 1
      /\ reply[t].entries[1].cursor = 3
      /\ reply[t].entries[1].name = loc[t].all[3].name

\* C19: an invocation ends only by sending its one reply: a thread leaves
\* the steps of an operation only into "done", with a reply it had not sent
\* before, and is free again only after that; create and mkdir too, when the
\* entry they made is removed before they stat it.
C19_OneReply ==
    [][\A t \in Threads :
         pc'[t] # pc[t] =>
           /\ pc'[t] # "panic"
           /\ pc'[t] = "done" => reply[t].tag = "none" /\ reply'[t].tag # "none"
           /\ pc'[t] = "idle" => pc[t] = "done"
           /\ pc'[t] # "done" => reply'[t].tag = "none"]_vars

\* Thread t takes, in this step, a step of the named operation.
StepOf(t, names) == pc'[t] # pc[t] /\ op'[t].name \in names

\* C20: getattr, open and read change neither the registry nor the backing
\* store; lookup changes no backing entry and binds at most the counter's
\* inode to the child path, and only when that path exists; unlink and rmdir
\* leave the registry as it is; no step removes or rebinds an entry, and the
\* registry starts from the root entry alone.
C20_Frame ==
    [][/\ \A i \in DOMAIN inodes : i \in DOMAIN inodes' /\ inodes'[i] = inodes[i]
       /\ next_ino' >= next_ino
       /\ next_ino = ROOT_INO + 1 => inodes = (ROOT_INO :> source)
       /\ \A t \in Threads :
            /\ StepOf(t, {"getattr", "open", "read"}) =>
                 inodes' = inodes /\ next_ino' = next_ino /\ fs' = fs
            /\ StepOf(t, {"unlink", "rmdir"}) =>
                 inodes' = inodes /\ next_ino' = next_ino
            /\ StepOf(t, {"lookup"}) =>
                 /\ fs' = fs
                 /\ inodes' # inodes =>
                      LET child == join(inodes[op'[t].ino], op'[t].nm)
                      IN  /\ fs[child].kind # "absent"
                          /\ DOMAIN inodes' = DOMAIN inodes \cup {next_ino}
                          /\ inodes'[next_ino] = child
                          /\ next_ino' = next_ino + 1]_vars

\* A lookup has bound inode 3 while inode 2 is still bound to a path whose
\* backing entry was removed.
C20_Witness ==
    \E t \in Threads :
      /\ pc[t] = "done" /\ op[t].name = "lookup" /\ reply[t].tag = "entry"
      /\ reply[t].ino = 3 /\ next_ino = 4
      /\ 2 \in DOMAIN inodes /\ fs[inodes[2]].kind = "absent"

====
